---------------------------- MODULE Spec2Model ----------------------------
(***************************************************************************)
(* debedrockify: migration of a Bedrock WordPress tree to the conventional *)
(* layout.  The model follows the most complete draft of the engine        *)
(* (src/unnamed/part_000): Engine.run and everything it calls, the main    *)
(* wrapper that maps a failure to an exit status, the filesystem as the    *)
(* set of paths that exist, and the wp_options table as a bag of rows.     *)
(***************************************************************************)
EXTENDS Naturals, Integers, Sequences, FiniteSets, TLC

VARIABLES
    fs,         \* the set of paths that exist below the root (a path is a tuple of segments)
    fs0,        \* the tree as it was when the process started
    pc,         \* the statement Engine.run / main is about to execute
    i,          \* index into wpFolders of the loop in sanityChecks
    err,        \* the exception in flight or caught by main (NoErr: none)
    env,        \* this.env, set by readEnv
    wpConfig,   \* the text written to web/wp/wp-config.php
    dump,       \* what became of the mysqldump child process
    conn,       \* this.mysql: "none", "open", "closed"
    options,    \* the table wp_options: the number of rows for each (name, value)
    options0,   \* the table as the connection found it
    ops,        \* the mutating operations performed so far, in order
    failure,    \* the first unexpected failure that happened ("none": none)
    exitCode,   \* the process exit status (Running: the process is alive)
    sample,     \* populateWpConfig: the template it was called with
    work,       \* populateWpConfig: its variable template, as reassigned so far
    generated,  \* populateWpConfig: the strings randomstring.generate returned, in order
    run,        \* which run of the tool on this workspace this is: 1 or 2
    call,       \* the engine method called last, when methods are called one by one
    ret,        \* what that call returned or threw
    files,      \* moveWpContents: the entries of its list files not moved yet
    calls,      \* the number of method calls made so far
    dumped,     \* the server, account and database the spawned mysqldump reads
    connected   \* the server, account and database this.mysql is connected to

\* the variables Engine.run leaves alone
aux == <<sample, work, generated, run, call, ret, files, calls>>

\* what the two database steps work on
targets == <<dumped, connected>>

vars ==
    <<fs, fs0, pc, i, err, env, wpConfig, dump, conn, options, options0, ops, failure,
      exitCode, aux, targets>>

---------------------------------------------------------------------------
(* Bounds of the model. *)

\* how many entries the content directories (web/app/<folder> and
\* web/wp/wp-content/<folder>) of the initial tree hold in all
MaxEntries == 3

\* the most secret keys a sample file has
MaxSecrets == 3

\* how many times archive and moveWpContents are called in all
MaxCalls == 2

\* the folders whose content directories hold entries in the initial tree
PopulatedFolders == {"themes", "upgrade"}

\* the numbers of rows the options table may hold for one option name before
\* the run: none, one, several
PriorRows == {0, 1, 2}

\* the entry names that occur in content directories; ".h" begins with a dot
Names == {"a", "b", ".h"}

DotNames == {".h"}

---------------------------------------------------------------------------
(* Program constants. *)

expectedPresent ==
    << <<".env">>, <<"web", "app">>, <<"web", "wp">>,
       <<"web", "wp", "wp-config-sample.php">> >>

expectedAbsent == << <<"web", "wp", "wp-config.php">> >>

wpFolders == <<"languages", "mu-plugins", "plugins", "themes", "uploads", "upgrade">>

Running == -1

NoErr == [type |-> "none", kind |-> "", paths |-> <<>>, names |-> {}, folder |-> ""]

\* new Interruption(`Expected file(s): ... not present`) and
\* new Interruption(`Unexpected file(s): ... present`)
PresenceInterruption(kind, paths) ==
    [type |-> "Interruption", kind |-> kind, paths |-> paths, names |-> {}, folder |-> ""]

\* new Interruption(`Conflict: ... present in both path1 and path2`)
ConflictInterruption(folder, names) ==
    [type |-> "Interruption", kind |-> "conflict", paths |-> <<>>, names |-> names,
     folder |-> folder]

\* any other exception: an I/O, stream or database error
UnexpectedError(kind) ==
    [type |-> "Error", kind |-> kind, paths |-> <<>>, names |-> {}, folder |-> ""]

\* this.env before readEnv
NoEnv == [DB_NAME |-> <<>>, DB_USER |-> <<>>, DB_PASSWORD |-> <<>>, DB_HOST |-> <<>>,
          WP_ENV |-> "", DB_PREFIX |-> <<>>, WP_HOME |-> ""]

\* the contents the .env file may have; a value that is substituted into the
\* configuration text is a text, a sequence of tokens (DB_PREFIX <<>>: not set)
EnvConfigs ==
    { [DB_NAME |-> <<"wp">>, DB_USER |-> <<"u">>, DB_PASSWORD |-> <<"p">>,
       DB_HOST |-> <<"db.internal">>, WP_ENV |-> "development", DB_PREFIX |-> <<>>,
       WP_HOME |-> url] :
        url \in {"https://example.com", "https://other.test"} }

---------------------------------------------------------------------------
(* The filesystem. *)

appDir(wpFolder) == <<"web", "app", wpFolder>>

contentDir(wpFolder) == <<"web", "wp", "wp-content", wpFolder>>

Parent(p) == SubSeq(p, 1, Len(p) - 1)

\* a tree: every path but a top-level one has its parent
Closed(S) == \A p \in S : Len(p) > 1 => Parent(p) \in S

BasePaths ==
    { <<".env">>, <<"web">>, <<"web", "app">>, <<"web", "wp">>,
      <<"web", "wp", "wp-config-sample.php">>, <<"web", "wp", "wp-config.php">>,
      <<"web", "wp", "wp-content">> }

Folders == {wpFolders[k] : k \in 1..Len(wpFolders)}

ContentDirs == {appDir(c) : c \in Folders} \cup {contentDir(c) : c \in Folders}

ContentEntries ==
    {Append(d, n) :
        d \in {appDir(c) : c \in PopulatedFolders} \cup {contentDir(c) : c \in PopulatedFolders},
        n \in Names}

RECURSIVE Prefixes(_)
Prefixes(p) == IF Len(p) = 0 THEN {} ELSE {p} \cup Prefixes(Parent(p))

\* makeDir(path): the directory and its missing parents
makeDir(tree, path) == tree \cup Prefixes(path)

RECURSIVE UpTo(_, _)
UpTo(S, k) ==
    IF k = 0 THEN {{}}
    ELSE LET T == UpTo(S, k - 1) IN T \cup UNION {{t \cup {p} : p \in S} : t \in T}

\* the trees the process may start in: any tree over the base paths, plus at
\* most MaxEntries content entries with the directories that hold them
InitTrees ==
    {B \cup UNION {Prefixes(e) : e \in E} :
        B \in {S \in SUBSET BasePaths : Closed(S)}, E \in UpTo(ContentEntries, MaxEntries)}

\* access(this.abs(relPath)).then(() => true, () => false)
exists(relPath) == relPath \in fs

\* globby('*', {cwd}): the names of the children of cwd that the pattern *
\* matches, which excludes the names that begin with a dot; no match, and no
\* error, when cwd does not exist
globby(cwd) == {n \in Names \ DotNames : Append(cwd, n) \in fs}

---------------------------------------------------------------------------
(* The configuration text: a sequence of tokens. *)

SecretPlaceholder == "put your unique phrase here"

TablePrefixWp == "$table_prefix = 'wp_'"

DebugFalse == "define('WP_DEBUG', false)"

DebugTrue == "define('WP_DEBUG', true)"

\* web/wp/wp-config-sample.php as WordPress ships it, cut to the tokens the
\* engine looks for
SampleTemplate ==
    <<"<?php", "database_name_here", "username_here", "password_here", "localhost",
      SecretPlaceholder, SecretPlaceholder, TablePrefixWp, DebugFalse>>

Templates == {SampleTemplate}

\* the strings randomstring.generate(64) may return
RandomStrings == {"r1", "r2"}

Occurs(text, token) == \E k \in 1..Len(text) : text[k] = token

Count(text, token) == Cardinality({k \in 1..Len(text) : text[k] = token})

\* String.prototype.indexOf, 0 when there is no occurrence
indexOf(text, token) ==
    IF Occurs(text, token)
    THEN CHOOSE k \in 1..Len(text) :
            text[k] = token /\ \A j \in 1..(k - 1) : text[j] # token
    ELSE 0

\* the special patterns of a replacement string of String.prototype.replace:
\* the match, the text before the match, the text after it, a dollar sign.
\* JavaScript writes the second with a dollar sign and a grave accent.
MatchPattern == "$&"

BeforePattern == "$(grave)"

AfterPattern == "$'"

DollarPattern == "$$"

\* the replacement string after its special patterns are expanded
RECURSIVE Expand(_, _, _, _)
Expand(repl, match, before, after) ==
    IF repl = <<>> THEN <<>>
    ELSE LET h == Head(repl)
             x == CASE h = MatchPattern -> <<match>>
                    [] h = BeforePattern -> before
                    [] h = AfterPattern -> after
                    [] h = DollarPattern -> <<"$">>
                    [] OTHER -> <<h>>
         IN x \o Expand(Tail(repl), match, before, after)

\* template.replace(find, replace): the first occurrence only
replace(text, find, repl) ==
    LET k == indexOf(text, find) IN
    IF k = 0 THEN text
    ELSE LET before == SubSeq(text, 1, k - 1)
             after == SubSeq(text, k + 1, Len(text))
         IN before \o Expand(repl, find, before, after) \o after

\* a findReplace list that turns the debug flag on for every WP_ENV that is
\* not 'production'
findReplaceDebugUnlessProduction(e) ==
    << [find |-> "database_name_here", replace |-> e.DB_NAME, skip |-> FALSE],
       [find |-> "username_here", replace |-> e.DB_USER, skip |-> FALSE],
       [find |-> "password_here", replace |-> e.DB_PASSWORD, skip |-> FALSE],
       [find |-> "localhost", replace |-> e.DB_HOST, skip |-> FALSE],
       [find |-> DebugFalse,
        replace |-> IF e.WP_ENV # "production" THEN <<DebugTrue>> ELSE <<DebugFalse>>,
        skip |-> FALSE],
       [find |-> TablePrefixWp,
        replace |-> <<"$table_prefix = '">> \o e.DB_PREFIX \o <<"'">>,
        skip |-> e.DB_PREFIX = <<>>] >>

\* a findReplace list without the entry for the host placeholder
findReplaceWithoutHost(e) ==
    << [find |-> "database_name_here", replace |-> e.DB_NAME, skip |-> FALSE],
       [find |-> "username_here", replace |-> e.DB_USER, skip |-> FALSE],
       [find |-> "password_here", replace |-> e.DB_PASSWORD, skip |-> FALSE],
       [find |-> DebugFalse,
        replace |-> IF e.WP_ENV = "development" THEN <<DebugTrue>> ELSE <<DebugFalse>>,
        skip |-> FALSE],
       [find |-> TablePrefixWp,
        replace |-> <<"$table_prefix = '">> \o e.DB_PREFIX \o <<"'">>,
        skip |-> e.DB_PREFIX = <<>>] >>

\* the findReplace list; a replacement of <<>> with skip set stands for null
findReplace(e) ==
    << [find |-> "database_name_here", replace |-> e.DB_NAME, skip |-> FALSE],
       [find |-> "username_here", replace |-> e.DB_USER, skip |-> FALSE],
       [find |-> "password_here", replace |-> e.DB_PASSWORD, skip |-> FALSE],
       [find |-> "localhost", replace |-> e.DB_HOST, skip |-> FALSE],
       [find |-> DebugFalse,
        replace |-> IF e.WP_ENV = "development" THEN <<DebugTrue>> ELSE <<DebugFalse>>,
        skip |-> FALSE],
       [find |-> TablePrefixWp,
        replace |-> <<"$table_prefix = '">> \o e.DB_PREFIX \o <<"'">>,
        skip |-> e.DB_PREFIX = <<>>] >>

RECURSIVE applyFindReplace(_, _)
applyFindReplace(text, list) ==
    IF list = <<>> THEN text
    ELSE LET r == Head(list) IN
         applyFindReplace(IF r.skip THEN text ELSE replace(text, r.find, r.replace),
                          Tail(list))

\* the while loop: one generated string, taken from rand in order, for each
\* occurrence of the placeholder
RECURSIVE replaceSecrets(_, _)
replaceSecrets(text, rand) ==
    IF indexOf(text, SecretPlaceholder) = 0 \/ rand = <<>> THEN text
    ELSE replaceSecrets(replace(text, SecretPlaceholder, <<Head(rand)>>), Tail(rand))

populateWpConfig(template, e, rand) ==
    replaceSecrets(applyFindReplace(template, findReplace(e)), rand)

---------------------------------------------------------------------------
(* The table wp_options: how many rows it holds for each (name, value). *)

OldUrl == "http://old.test"

OptionRows ==
    ({"siteurl", "home"} \X ({OldUrl} \cup {e.WP_HOME : e \in EnvConfigs}))
        \cup {<<"blogname", "My Site">>}

NoTable == [r \in OptionRows |-> 0]

\* the tables a connection may find: any number in PriorRows of rows for
\* siteurl and for home, and the rows of other options
PriorTables ==
    { [r \in OptionRows |->
         CASE r = <<"siteurl", OldUrl>> -> s
           [] r = <<"home", OldUrl>> -> h
           [] r = <<"blogname", "My Site">> -> 1
           [] OTHER -> 0] : s \in PriorRows, h \in PriorRows }

\* a DELETE that names only 'siteurl'
deleteSiteUrlRowsOnly(table) ==
    [r \in OptionRows |-> IF r[1] = "siteurl" THEN 0 ELSE table[r]]

\* DELETE FROM `wp_options` WHERE `option_name` IN ('siteurl', 'home')
deleteSiteUrlRows(table) ==
    [r \in OptionRows |-> IF r[1] \in {"siteurl", "home"} THEN 0 ELSE table[r]]

\* INSERT INTO `wp_options` (`option_name`, `option_value`) VALUES (?, ?)
insertOption(table, name, value) == [table EXCEPT ![<<name, value>>] = @ + 1]

---------------------------------------------------------------------------
(* Engine.checkPresence and Engine.checkConflicts. *)

\* a filterByStatus that stops at the first path whose presence is not the
\* expected one
filterByStatusFailFast(paths, presentExpected) ==
    LET all == SelectSeq(paths, LAMBDA path : exists(path) # presentExpected)
    IN IF all = <<>> THEN <<>> ELSE <<Head(all)>>

\* filterByStatus: the paths whose presence is not the expected one
filterByStatus(paths, presentExpected) ==
    SelectSeq(paths, LAMBDA path : exists(path) # presentExpected)

\* the checkPresence of the earlier drafts (src/index.js), which looks at the
\* expected paths only and never at web/wp/wp-config.php
checkPresenceExpectedOnly ==
    LET absent == SelectSeq(expectedPresent, LAMBDA path : ~exists(path))
    IN IF Len(absent) > 0 THEN PresenceInterruption("absent", absent) ELSE NoErr

\* the Interruption checkPresence throws, NoErr when it returns
checkPresence ==
    LET absent == filterByStatus(expectedPresent, TRUE)
        present == filterByStatus(expectedAbsent, FALSE)
    IN IF Len(absent) > 0 THEN PresenceInterruption("absent", absent)
       ELSE IF Len(present) > 0 THEN PresenceInterruption("present", present)
       ELSE NoErr

\* a checkConflicts that reports the entries of the first directory
checkConflictsReportsFirst(wpFolder) ==
    LET in1 == globby(appDir(wpFolder))
        in2 == globby(contentDir(wpFolder))
    IN IF Cardinality(in1 \cap in2) > 0 THEN ConflictInterruption(wpFolder, in1)
       ELSE NoErr

\* the Interruption checkConflicts throws for a folder, NoErr when it returns
checkConflicts(wpFolder) ==
    LET in1 == globby(appDir(wpFolder))
        in2 == globby(contentDir(wpFolder))
        intersect == in1 \cap in2
    IN IF Cardinality(intersect) > 0 THEN ConflictInterruption(wpFolder, intersect)
       ELSE NoErr

---------------------------------------------------------------------------
(* Engine.run and main. *)

\* a run that creates the quarantine directory before it checks anything
runStepsMakeDirFirst == <<"makeDir", "sanityChecks", "readEnv", "envToWpConfig", "doDb">>

\* the statements of Engine.run that are not commented out, in order
runSteps == <<"sanityChecks", "makeDir", "readEnv", "envToWpConfig", "doDb">>

\* the first statement of a step
entry(step) ==
    CASE step = "sanityChecks" -> "checkPresence"
      [] step = "doDb" -> "mysqlBackup"
      [] OTHER -> step

\* where run continues after a step: its next statement, or its return
stepAfter(step) ==
    LET k == CHOOSE j \in 1..Len(runSteps) : runSteps[j] = step
    IN IF k < Len(runSteps) THEN entry(runSteps[k + 1]) ELSE "done"

quarantine == <<".debedrockify", "old">>

backupFile == <<".debedrockify", "mysql_backup.sql">>

wpConfigPath == <<"web", "wp", "wp-config.php">>

NoCall == [op |-> "none", path |-> <<>>, lead |-> FALSE]

\* no mysqldump spawned, no connection opened
NoTarget == [host |-> <<>>, user |-> <<>>, password |-> <<>>, database |-> <<>>]

\* the host a mysqldump without the option -h reads from
DefaultHost == <<"localhost">>

\* spawn('mysqldump', ['-u', user, '-p' + password, database]): what the
\* child process reads
mysqldump(o) ==
    [host |-> DefaultHost, user |-> o.user, password |-> o.password,
     database |-> o.database]

\* the configuration mysqlConnect gives to mysql.createConnection
createConnection(e) ==
    [host |-> e.DB_HOST, user |-> e.DB_USER, password |-> e.DB_PASSWORD,
     database |-> e.DB_NAME]

\* nothing rendered, no method called, the first run, no database touched
AuxInit ==
    /\ sample = <<>>
    /\ work = <<>>
    /\ generated = <<>>
    /\ run = 1
    /\ call = NoCall
    /\ ret = "none"
    /\ files = {}
    /\ calls = 0
    /\ dumped = NoTarget
    /\ connected = NoTarget

Init ==
    /\ fs \in InitTrees
    /\ fs0 = fs
    /\ pc = entry(runSteps[1])
    /\ i = 1
    /\ err = NoErr
    /\ env = NoEnv
    /\ wpConfig = <<>>
    /\ dump = "none"
    /\ conn = "none"
    /\ options = NoTable
    /\ options0 = NoTable
    /\ ops = <<>>
    /\ failure = "none"
    /\ exitCode = Running
    /\ AuxInit

\* an exception leaves run: main's catch block is next
Throw(e) ==
    /\ err' = e
    /\ pc' = "catch"
    /\ failure' = IF e.type = "Error" /\ failure = "none" THEN e.kind ELSE failure

Goto(next) == pc' = next /\ UNCHANGED <<err, failure>>

\* await this.checkPresence()
CheckPresence ==
    /\ pc = "checkPresence"
    /\ IF checkPresence # NoErr THEN Throw(checkPresence) ELSE Goto("checkConflicts")
    /\ i' = 1
    /\ UNCHANGED <<aux, targets, fs, fs0, env, wpConfig, dump, conn, options, options0, ops, exitCode>>

\* one iteration of: for (const wpFolder of wpFolders) await this.checkConflicts(...)
CheckConflicts ==
    /\ pc = "checkConflicts"
    /\ i <= Len(wpFolders)
    /\ LET e == checkConflicts(wpFolders[i]) IN
       IF e # NoErr THEN Throw(e) /\ i' = i
       ELSE /\ i' = i + 1
            /\ Goto(IF i < Len(wpFolders) THEN "checkConflicts"
                    ELSE stepAfter("sanityChecks"))
    /\ UNCHANGED <<aux, targets, fs, fs0, env, wpConfig, dump, conn, options, options0, ops, exitCode>>

\* await makeDir(this.abs(`.debedrockify/old`))
MakeDir ==
    /\ pc = "makeDir"
    /\ \/ /\ fs' = makeDir(fs, quarantine)
          /\ ops' = Append(ops, "makeDir")
          /\ Goto(stepAfter("makeDir"))
       \/ /\ Throw(UnexpectedError("io"))
          /\ UNCHANGED <<fs, ops>>
    /\ UNCHANGED <<aux, targets, fs0, i, env, wpConfig, dump, conn, options, options0, exitCode>>

\* this.readEnv()
ReadEnv ==
    /\ pc = "readEnv"
    /\ \/ /\ exists(<<".env">>)
          /\ env' \in EnvConfigs
          /\ Goto(stepAfter("readEnv"))
       \/ /\ Throw(UnexpectedError("io"))
          /\ env' = env
    /\ UNCHANGED <<aux, targets, fs, fs0, i, wpConfig, dump, conn, options, options0, ops, exitCode>>

\* await this.envToWpConfig(): read the sample, populate it, write the result
EnvToWpConfig ==
    /\ pc = "envToWpConfig"
    /\ \/ /\ exists(<<"web", "wp", "wp-config-sample.php">>)
          /\ \E template \in Templates :
               LET n == Count(applyFindReplace(template, findReplace(env)),
                              SecretPlaceholder)
               IN \E rand \in [1..n -> RandomStrings] :
                    wpConfig' = populateWpConfig(template, env, rand)
          /\ fs' = fs \cup {wpConfigPath}
          /\ ops' = Append(ops, "writeFile")
          /\ Goto(stepAfter("envToWpConfig"))
       \/ /\ Throw(UnexpectedError("io"))
          /\ UNCHANGED <<fs, wpConfig, ops>>
    /\ UNCHANGED <<aux, targets, fs0, i, env, dump, conn, options, options0, exitCode>>

\* await this.mysqlBackup(): spawn mysqldump and pipe its stdout to the backup
\* file.  The promise resolves on the file stream's finish event, which
\* follows the end of the child's stdout whatever the child's exit status,
\* and rejects on the file stream's error event.  Nothing listens to the
\* child's own error event, which a failed spawn emits: unhandled, it ends
\* the process as an uncaught exception (exit status 1) outside main's try.
MysqlBackup ==
    /\ pc = "mysqlBackup"
    /\ ops' = Append(ops, "mysqldump")
    /\ \/ /\ dump' = "complete"
          /\ fs' = fs \cup {backupFile}
          /\ Goto("mysqlConnect")
          /\ UNCHANGED exitCode
       \/ /\ dump' = "exitedWithFailure"
          /\ fs' = fs \cup {backupFile}
          /\ pc' = "mysqlConnect"
          /\ failure' = IF failure = "none" THEN "dump" ELSE failure
          /\ UNCHANGED <<err, exitCode>>
       \/ /\ dump' = "streamError"
          /\ Throw(UnexpectedError("stream"))
          /\ UNCHANGED <<fs, exitCode>>
       \/ /\ dump' = "notSpawned"
          /\ pc' = "exited"
          /\ exitCode' = 1
          /\ failure' = IF failure = "none" THEN "spawn" ELSE failure
          /\ UNCHANGED <<fs, err>>
    /\ dumped' = mysqldump([user |-> env.DB_USER, password |-> env.DB_PASSWORD,
                           database |-> env.DB_NAME])
    /\ UNCHANGED <<aux, connected, fs0, i, env, wpConfig, conn, options, options0>>

\* await this.mysqlConnect(): options becomes the table as the connection finds it
MysqlConnect ==
    /\ pc = "mysqlConnect"
    /\ \/ /\ conn' = "open"
          /\ connected' = createConnection(env)
          /\ options' \in PriorTables
          /\ options0' = options'
          /\ Goto("delete")
       \/ /\ Throw(UnexpectedError("db"))
          /\ UNCHANGED <<conn, connected, options, options0>>
    /\ UNCHANGED <<aux, dumped, fs, fs0, i, env, wpConfig, dump, ops, exitCode>>

\* one await this.mysqlQuery(...) of updateDbSiteUrl
Query(at, statement, table, next) ==
    /\ pc = at
    /\ conn = "open"
    /\ \/ /\ options' = table
          /\ ops' = Append(ops, statement)
          /\ Goto(next)
       \/ /\ Throw(UnexpectedError("db"))
          /\ UNCHANGED <<options, ops>>
    /\ UNCHANGED <<aux, targets, fs, fs0, i, env, wpConfig, dump, conn, options0, exitCode>>

Delete == Query("delete", "DELETE", deleteSiteUrlRows(options), "insertSiteurl")

InsertSiteurl ==
    Query("insertSiteurl", "INSERT siteurl",
          insertOption(options, "siteurl", env.WP_HOME), "insertHome")

InsertHome ==
    Query("insertHome", "INSERT home",
          insertOption(options, "home", env.WP_HOME), "mysqlDisconnect")

\* await this.mysqlDisconnect(): end() terminates the connection even when
\* it reports an error
MysqlDisconnect ==
    /\ pc = "mysqlDisconnect"
    /\ conn' = "closed"
    /\ \/ Goto(stepAfter("doDb"))
       \/ Throw(UnexpectedError("db"))
    /\ UNCHANGED <<aux, targets, fs, fs0, i, env, wpConfig, dump, options, options0, ops, exitCode>>

\* run returned: nothing is left to do and the process ends with status 0
MainReturn ==
    /\ pc = "done"
    /\ pc' = "exited"
    /\ exitCode' = 0
    /\ UNCHANGED <<aux, targets, fs, fs0, i, err, env, wpConfig, dump, conn, options, options0, ops, failure>>

\* the status main's catch block passes to process.exit
exitStatus(e) == IF e.type = "Interruption" THEN 1 ELSE 127

MainCatch ==
    /\ pc = "catch"
    /\ pc' = "exited"
    /\ exitCode' = exitStatus(err)
    /\ UNCHANGED <<aux, targets, fs, fs0, i, err, env, wpConfig, dump, conn, options, options0, ops, failure>>

Next ==
    \/ CheckPresence
    \/ CheckConflicts
    \/ MakeDir
    \/ ReadEnv
    \/ EnvToWpConfig
    \/ MysqlBackup
    \/ MysqlConnect
    \/ Delete
    \/ InsertSiteurl
    \/ InsertHome
    \/ MysqlDisconnect
    \/ MainReturn
    \/ MainCatch

Spec == Init /\ [][Next]_vars

---------------------------------------------------------------------------
(* envToWpConfig step by step: the for loop and the while loop of
   populateWpConfig, one iteration at a time, over a wider choice of sample
   files and .env files than the whole run takes. *)

\* env[key] of a key the .env file does not define
Undefined == "undefined"

\* the values a .env file gives to the keys of the database
PlainValues ==
    [DB_NAME |-> <<"wp">>, DB_USER |-> <<"u">>, DB_PASSWORD |-> <<"p">>,
     DB_HOST |-> <<"db.internal">>]

DbKeys == {"DB_NAME", "DB_USER", "DB_PASSWORD", "DB_HOST"}

\* values that hold a string the template is searched for, or a replacement
\* pattern of String.prototype.replace
SpecialValues ==
    { <<"localhost">>, <<"my", "localhost">>, <<"username_here">>,
      <<MatchPattern>>, <<BeforePattern>>, <<AfterPattern>>, <<DollarPattern>>,
      <<SecretPlaceholder>> }

\* the .env files: plain values, but for at most one key
RenderEnvs ==
    { [DB_NAME |-> v.DB_NAME, DB_USER |-> v.DB_USER, DB_PASSWORD |-> v.DB_PASSWORD,
       DB_HOST |-> v.DB_HOST, WP_ENV |-> mode, DB_PREFIX |-> prefix,
       WP_HOME |-> "https://example.com"] :
        v \in {PlainValues}
               \cup {[PlainValues EXCEPT ![k] = s] : k \in DbKeys, s \in SpecialValues},
        mode \in {"development", "production", "Development", Undefined},
        prefix \in {<<>>, <<"xx_">>} }

RECURSIVE Secrets(_)
Secrets(n) == IF n = 0 THEN <<>> ELSE <<SecretPlaceholder>> \o Secrets(n - 1)

\* a wp-config-sample.php with n secret keys
SampleWith(n) ==
    <<"<?php", "database_name_here", "username_here", "password_here", "localhost">>
        \o Secrets(n) \o <<TablePrefixWp, DebugFalse>>

\* the sample files: any number of secret keys up to MaxSecrets, one that
\* begins with a secret key, one that names localhost twice
RenderTemplates ==
    {SampleWith(n) : n \in 0..MaxSecrets}
        \cup {<<SecretPlaceholder>> \o SampleWith(1), SampleWith(1) \o <<"localhost">>}

\* a while condition that compares the index with 0: it misses an occurrence
\* at the very start of the text
secretLeftPastStart(t) == indexOf(t, SecretPlaceholder) > 1

\* template.indexOf('put your unique phrase here') !== -1
secretLeft(t) == indexOf(t, SecretPlaceholder) # 0

\* a workspace that passes the sanity checks
RenderTree == BasePaths \ {wpConfigPath}

\* envToWpConfig is entered: the sample is read, populateWpConfig is called
InitRender ==
    /\ fs = RenderTree
    /\ fs0 = fs
    /\ pc = "findReplace"
    /\ i = 1
    /\ err = NoErr
    /\ env \in RenderEnvs
    /\ wpConfig = <<>>
    /\ dump = "none"
    /\ conn = "none"
    /\ options = NoTable
    /\ options0 = NoTable
    /\ ops = <<>>
    /\ failure = "none"
    /\ exitCode = Running
    /\ sample \in RenderTemplates
    /\ work = sample
    /\ generated = <<>>
    /\ run = 1
    /\ call = NoCall
    /\ ret = "none"
    /\ files = {}
    /\ calls = 0
    /\ dumped = NoTarget
    /\ connected = NoTarget

\* one iteration of: for (const [find, replace] of findReplace)
RenderFindReplace ==
    /\ pc = "findReplace"
    /\ LET r == findReplace(env)[i]
       IN work' = IF r.skip THEN work ELSE replace(work, r.find, r.replace)
    /\ i' = i + 1
    /\ pc' = IF i = Len(findReplace(env)) THEN "secrets" ELSE "findReplace"
    /\ UNCHANGED <<fs, fs0, err, env, wpConfig, dump, conn, options, options0, ops,
                   failure, exitCode, sample, generated, run, call, ret, files, calls,
                   targets>>

\* one iteration of the while loop: one call of randomstring.generate
RenderSecret ==
    /\ pc = "secrets"
    /\ secretLeft(work)
    /\ \E r \in RandomStrings :
         /\ work' = replace(work, SecretPlaceholder, <<r>>)
         /\ generated' = Append(generated, r)
    /\ UNCHANGED <<fs, fs0, pc, i, err, env, wpConfig, dump, conn, options, options0,
                   ops, failure, exitCode, sample, run, call, ret, files, calls,
                   targets>>

\* the while loop ends, populateWpConfig returns, envToWpConfig writes the file
RenderReturn ==
    /\ pc = "secrets"
    /\ ~secretLeft(work)
    /\ wpConfig' = work
    /\ fs' = fs \cup {wpConfigPath}
    /\ ops' = Append(ops, "writeFile")
    /\ pc' = "rendered"
    /\ UNCHANGED <<fs0, i, err, env, dump, conn, options, options0, failure, exitCode,
                   aux, targets>>

NextRender ==
    \/ RenderFindReplace
    \/ RenderSecret
    \/ RenderReturn

SpecRender == InitRender /\ [][NextRender]_vars

\* populateWpConfig is synchronous: once called, it runs until it returns
SpecRenderFair == SpecRender /\ WF_vars(NextRender)

---------------------------------------------------------------------------
(* The tool run a second time on the workspace and the database the first
   run left behind. *)

\* the workspaces the first run gets past the presence check on
InitRerun ==
    /\ Init
    /\ \A k \in 1..Len(expectedPresent) : exists(expectedPresent[k])
    /\ \A k \in 1..Len(expectedAbsent) : ~exists(expectedAbsent[k])

\* the first process has exited, however it ended, and has written
\* web/wp/wp-config.php; a new process starts in the same root
StartAgain ==
    /\ run = 1
    /\ pc = "exited"
    /\ exists(wpConfigPath)
    /\ run' = run + 1
    /\ pc' = entry(runSteps[1])
    /\ i' = 1
    /\ err' = NoErr
    /\ env' = NoEnv
    /\ dump' = "none"
    /\ conn' = "none"
    /\ ops' = <<>>
    /\ failure' = "none"
    /\ exitCode' = Running
    /\ fs0' = fs
    /\ options0' = options
    /\ dumped' = NoTarget
    /\ connected' = NoTarget
    /\ UNCHANGED <<fs, wpConfig, options, sample, work, generated, call, ret, files,
                   calls>>

NextRerun ==
    \/ Next
    \/ StartAgain

SpecRerun == InitRerun /\ [][NextRerun]_vars

---------------------------------------------------------------------------
(* Engine.archive and Engine.moveWpContents, called one by one on an engine:
   run does not call them. *)

\* the folder moveWpContents is called with
MovedFolders == {"themes"}

\* the paths archive is called with
ArchivePaths ==
    { <<"web", "app">>, <<"web", "cache">>, <<"web", "index.php">> }

OpsBase ==
    { <<".debedrockify">>, quarantine, quarantine \o <<"web">>, <<"web">>,
      <<"web", "app">>, <<"web", "cache">>, <<"web", "cache", "page">>,
      <<"web", "index.php">> }

OpsEntries ==
    {Append(dir, n) :
        dir \in {appDir(c) : c \in MovedFolders} \cup {contentDir(c) : c \in MovedFolders},
        n \in Names}

\* the trees the calls start in: any tree over OpsBase, plus at most
\* MaxEntries content entries with the directories that hold them
OpsTrees ==
    {B \cup UNION {Prefixes(e) : e \in E} :
        B \in {S \in SUBSET OpsBase : Closed(S)}, E \in UpTo(OpsEntries, MaxEntries)}

\* a path and everything below it
Subtree(tree, path) == {p \in tree : Len(p) >= Len(path) /\ SubSeq(p, 1, Len(path)) = path}

\* the paths of Subtree(tree, src), below dest instead of src
Relocated(tree, src, dest) ==
    {dest \o SubSeq(p, Len(src) + 1, Len(p)) : p \in Subtree(tree, src)}

\* mv(source, dest) of the package mv with its default options (no mkdirp,
\* clobber): one fs.rename.  It fails when the source or the directory that is
\* to hold dest does not exist, and when dest is a directory that is not
\* empty; a dest without children is replaced or makes the rename fail,
\* depending on the kinds of the two entries, which a tree does not tell
mv(tree, src, dest) ==
    LET failed == [fs |-> tree, ok |-> FALSE]
        renamed == [fs |-> (tree \ (Subtree(tree, src) \cup Subtree(tree, dest)))
                              \cup Relocated(tree, src, dest),
                    ok |-> TRUE]
    IN IF src \notin tree \/ (Len(dest) > 1 /\ Parent(dest) \notin tree) THEN {failed}
       ELSE IF dest \notin tree THEN {renamed}
       ELSE IF Subtree(tree, dest) # {dest} THEN {failed}
       ELSE {renamed, failed}

\* trimStart(path, '/') of a path given as its segments and whether it begins
\* with separators
trimStart(arg) == [arg EXCEPT !.lead = FALSE]

\* the segments of this.abs(path) below the root
abs(arg) == trimStart(arg).path

\* an archive that does not look whether the path exists
archiveUnchecked(arg) ==
    {[fs |-> o.fs, ret |-> IF o.ok THEN "undefined" ELSE "throws"] :
        o \in mv(fs, abs(trimStart(arg)), quarantine \o trimStart(arg).path)}

\* Engine.archive: the filesystem it leaves, and what it returns
archive(arg) ==
    IF ~exists(abs(arg)) THEN {[fs |-> fs, ret |-> "false"]}
    ELSE {[fs |-> o.fs, ret |-> IF o.ok THEN "undefined" ELSE "throws"] :
            o \in mv(fs, abs(trimStart(arg)), quarantine \o trimStart(arg).path)}

InitOps ==
    /\ fs \in OpsTrees
    /\ fs0 = fs
    /\ pc = "idle"
    /\ i = 1
    /\ err = NoErr
    /\ env = NoEnv
    /\ wpConfig = <<>>
    /\ dump = "none"
    /\ conn = "none"
    /\ options = NoTable
    /\ options0 = NoTable
    /\ ops = <<>>
    /\ failure = "none"
    /\ exitCode = Running
    /\ AuxInit

\* await engine.archive(path); fs0 is the filesystem the call starts in
Archive ==
    /\ pc = "idle"
    /\ calls < MaxCalls
    /\ \E path \in ArchivePaths, lead \in BOOLEAN :
         LET arg == [op |-> "archive", path |-> path, lead |-> lead]
         IN /\ call' = arg
            /\ \E o \in archive(arg) :
                 /\ fs' = o.fs
                 /\ ret' = o.ret
                 /\ ops' = IF o.ret = "undefined" THEN Append(ops, "mv") ELSE ops
    /\ fs0' = fs
    /\ calls' = calls + 1
    /\ UNCHANGED <<pc, i, err, env, wpConfig, dump, conn, options, options0, failure,
                   exitCode, sample, work, generated, run, files, targets>>

\* await engine.moveWpContents(wpFolder), up to the for loop
MoveWpContents ==
    /\ pc = "idle"
    /\ calls < MaxCalls
    /\ \E wpFolder \in MovedFolders :
         /\ call' = [op |-> "moveWpContents", path |-> appDir(wpFolder), lead |-> FALSE]
         /\ IF ~exists(appDir(wpFolder))
            THEN /\ ret' = "false"
                 /\ UNCHANGED <<fs, pc, files, ops>>
            ELSE /\ fs' = makeDir(fs, contentDir(wpFolder))
                 /\ files' = globby(appDir(wpFolder))
                 /\ ops' = Append(ops, "makeDir")
                 /\ ret' = "none"
                 /\ pc' = "moving"
    /\ fs0' = fs
    /\ calls' = calls + 1
    /\ UNCHANGED <<i, err, env, wpConfig, dump, conn, options, options0, failure,
                   exitCode, sample, work, generated, run, targets>>

\* one iteration of the for loop of moveWpContents: one mv
MoveFile ==
    /\ pc = "moving"
    /\ \E file \in files :
         \E o \in mv(fs, Append(call.path, file),
                     Append(contentDir(call.path[Len(call.path)]), file)) :
            /\ fs' = o.fs
            /\ files' = files \ {file}
            /\ IF o.ok
               THEN /\ ops' = Append(ops, "mv")
                    /\ UNCHANGED <<pc, ret>>
               ELSE /\ ret' = "throws"
                    /\ pc' = "idle"
                    /\ UNCHANGED ops
    /\ UNCHANGED <<fs0, i, err, env, wpConfig, dump, conn, options, options0, failure,
                   exitCode, sample, work, generated, run, call, calls, targets>>

\* the for loop of moveWpContents ends: the method returns nothing
MoveReturn ==
    /\ pc = "moving"
    /\ files = {}
    /\ ret' = "undefined"
    /\ pc' = "idle"
    /\ UNCHANGED <<fs, fs0, i, err, env, wpConfig, dump, conn, options, options0, ops,
                   failure, exitCode, sample, work, generated, run, call, files, calls,
                   targets>>

NextOps ==
    \/ Archive
    \/ MoveWpContents
    \/ MoveFile
    \/ MoveReturn

SpecOps == InitOps /\ [][NextOps]_vars

---------------------------------------------------------------------------
(* The configuration and database steps of run, for .env files that differ
   in DB_HOST and DB_PREFIX. *)

DbEnvs ==
    { [e EXCEPT !.DB_HOST = host, !.DB_PREFIX = prefix] :
        e \in EnvConfigs,
        host \in {DefaultHost, <<"db.internal">>},
        prefix \in {<<>>, <<"wp_">>, <<"xx_">>} }

\* run has passed the sanity checks, made .debedrockify/old and read .env
InitDb ==
    /\ fs = makeDir(RenderTree, quarantine)
    /\ fs0 = RenderTree
    /\ pc = stepAfter("readEnv")
    /\ i = 1
    /\ err = NoErr
    /\ env \in DbEnvs
    /\ wpConfig = <<>>
    /\ dump = "none"
    /\ conn = "none"
    /\ options = NoTable
    /\ options0 = NoTable
    /\ ops = <<"makeDir">>
    /\ failure = "none"
    /\ exitCode = Running
    /\ AuxInit

NextDb ==
    \/ EnvToWpConfig
    \/ MysqlBackup
    \/ MysqlConnect
    \/ Delete
    \/ InsertSiteurl
    \/ InsertHome
    \/ MysqlDisconnect
    \/ MainReturn
    \/ MainCatch

SpecDb == InitDb /\ [][NextDb]_vars

---------------------------------------------------------------------------
(* Properties. *)

Range(seq) == {seq[k] : k \in 1..Len(seq)}

\* the children a directory had when the process started, whatever their names
children0(dir) == {n \in Names : Append(dir, n) \in fs0}

\* the number of rows of a table with the given option name
countNamed(table, name) ==
    LET RECURSIVE Sum(_)
        Sum(S) == IF S = {} THEN 0
                  ELSE LET r == CHOOSE x \in S : TRUE IN table[r] + Sum(S \ {r})
    IN Sum({r \in OptionRows : r[1] = name})

Interrupted == err.type = "Interruption"

RewriteStatements == {"DELETE", "INSERT siteurl", "INSERT home"}

RequiredPaths ==
    { <<".env">>, <<"web", "app">>, <<"web", "wp">>,
      <<"web", "wp", "wp-config-sample.php">> }

ForbiddenPaths == { <<"web", "wp", "wp-config.php">> }

AbsentRequired == {p \in RequiredPaths : p \notin fs0}

PresentForbidden == {p \in ForbiddenPaths : p \in fs0}

PresenceViolation == Interrupted /\ err.kind \in {"absent", "present"}

\* the names that web/app/<folder k> and web/wp/wp-content/<folder k> both
\* held when the process started
SharedNames(k) ==
    children0(appDir(wpFolders[k])) \cap children0(contentDir(wpFolders[k]))

\* C1: whenever an Interruption (a precondition or a content-conflict
\* violation) has been raised, no mutating operation of the run has happened:
\* the tree is as it was, nothing was written, no dump was started, no
\* connection opened, no statement issued; and once any mutating operation
\* has happened, the presence check has passed and no folder has a conflict
\* (a shared name that does not begin with a dot).
C1_NoMutationBeforeInterruption ==
    /\ Interrupted =>
          /\ ops = <<>>
          /\ fs = fs0
          /\ wpConfig = <<>>
          /\ dump = "none"
          /\ conn = "none"
    /\ ops # <<>> =>
          /\ AbsentRequired = {} /\ PresentForbidden = {}
          /\ \A k \in 1..Len(wpFolders) : SharedNames(k) \ DotNames = {}

\* C1 witness: the run ended on a content conflict found in the last folder
C1_Witness ==
    /\ pc = "exited"
    /\ exitCode = 1
    /\ err.kind = "conflict"
    /\ err.folder = "upgrade"

\* C2: the site-URL rewrite (the DELETE and the two INSERTs) is never
\* executed unless the mysqldump before it ran to successful completion.
C2_RewriteOnlyAfterSuccessfulDump ==
    (\E k \in 1..Len(ops) : ops[k] \in RewriteStatements) => dump = "complete"

\* C3: when the process has ended, a connection that mysqlConnect opened has
\* been closed by mysqlDisconnect.
C3_ConnectionClosedAtExit ==
    (pc = "exited" /\ conn # "none") => conn = "closed"

\* C4: the process exits with 1 exactly when a precondition or conflict
\* violation was detected, and with 0 exactly when every phase of run
\* completed.
C4_ExitCodes ==
    pc = "exited" =>
        /\ exitCode = 1 <=> Interrupted
        /\ exitCode = 0 <=> (err = NoErr /\ conn = "closed")

\* C5: every unexpected failure ends the process with exit status 127, and
\* no later step runs after it.
C5_UnexpectedFailureExits127 ==
    failure # "none" =>
        /\ pc \in {"catch", "exited"}
        /\ pc = "exited" => exitCode = 127

\* C6: checkPresence raises a violation if and only if a required path
\* (.env, web/app, web/wp, web/wp/wp-config-sample.php) is absent or the
\* forbidden path (web/wp/wp-config.php) is present.
C6_PresenceViolationIff ==
    pc # "checkPresence" =>
        (PresenceViolation <=> (AbsentRequired # {} \/ PresentForbidden # {}))

\* C6 witness: checkPresence raised because web/wp/wp-config.php is present
\* while nothing required is absent
C6_Witness ==
    /\ PresenceViolation
    /\ AbsentRequired = {}
    /\ PresentForbidden # {}

\* C7, as claimed: the violation checkPresence reports lists every violating
\* path of both kinds.
C7_AllViolationsOfBothKinds ==
    PresenceViolation => Range(err.paths) = AbsentRequired \cup PresentForbidden

\* C7, amended: the violation lists every required-but-absent path when
\* there is one, and then no forbidden-but-present path; otherwise it lists
\* every forbidden-but-present path.
C7_AllViolationsOfFirstKind ==
    PresenceViolation =>
        /\ AbsentRequired # {} =>
              err.kind = "absent" /\ Range(err.paths) = AbsentRequired
        /\ AbsentRequired = {} =>
              err.kind = "present" /\ Range(err.paths) = PresentForbidden

\* C7 witness: several required paths are absent, the forbidden one is
\* present, and a violation was reported
C7_Witness ==
    /\ PresenceViolation
    /\ Cardinality(AbsentRequired) >= 2
    /\ PresentForbidden # {}

\* the check of folder k returned / threw
ConflictCheckPassed(k) == i > k

ConflictCheckFailed(k) == Interrupted /\ err.kind = "conflict" /\ i = k

C9_ContentRelocatedAtExit0 ==
    exitCode = 0 =>
        \A c \in Folders : \A n \in children0(appDir(c)) :
            /\ Append(contentDir(c), n) \in fs
            /\ Append(appDir(c), n) \notin fs

UpdateDbSiteUrlCompleted == Len(ops) > 0 /\ ops[Len(ops)] = "INSERT home"

\* C10: after updateDbSiteUrl completes, the table holds exactly one row
\* named siteurl and one named home, both with the value of WP_HOME, however
\* many rows of each it held before.
C10_OneRowEach ==
    UpdateDbSiteUrlCompleted =>
        /\ countNamed(options, "siteurl") = 1
        /\ countNamed(options, "home") = 1
        /\ options[<<"siteurl", env.WP_HOME>>] = 1
        /\ options[<<"home", env.WP_HOME>>] = 1

\* C10 witness: updateDbSiteUrl completed on a table that held several rows
\* named home and none named siteurl
C10_Witness ==
    /\ UpdateDbSiteUrlCompleted
    /\ countNamed(options0, "home") = 2
    /\ countNamed(options0, "siteurl") = 0

---------------------------------------------------------------------------
(* Properties of populateWpConfig, under SpecRender. *)

LegacyPlaceholders == {"database_name_here", "username_here", "password_here", "localhost"}

\* the replacement patterns that insert text of the template
CopyingPatterns == {MatchPattern, BeforePattern, AfterPattern}

\* populateWpConfig has returned and its result is written
Rendered == pc = "rendered"

\* the values populateWpConfig inserts as they are
InsertedValues(e) == {e.DB_NAME, e.DB_USER, e.DB_PASSWORD, e.DB_HOST, e.DB_PREFIX}

\* no inserted value holds a legacy placeholder or a pattern that copies text
PlainEnv(e) ==
    \A v \in InsertedValues(e) : Range(v) \cap (LegacyPlaceholders \cup CopyingPatterns) = {}

\* C11, as stated: whatever the template and the env values, the text
\* populateWpConfig returns holds none of the four legacy placeholders
C11_NoLegacyPlaceholderLeft ==
    Rendered => \A ph \in LegacyPlaceholders : Count(wpConfig, ph) = 0

\* C11, amended: the text populateWpConfig returns holds none of the four
\* legacy placeholders when the template holds each of them once and no env
\* value holds one of them or a pattern that copies text of the template
C11_NoLegacyPlaceholderLeftOfPlainInput ==
    (/\ Rendered
     /\ \A ph \in LegacyPlaceholders : Count(sample, ph) = 1
     /\ PlainEnv(env))
        => \A ph \in LegacyPlaceholders : Count(wpConfig, ph) = 0

\* a template with each placeholder once and two secret keys is rendered from
\* plain values, a table prefix among them
C11_Witness ==
    /\ Rendered
    /\ \A ph \in LegacyPlaceholders : Count(sample, ph) = 1
    /\ PlainEnv(env)
    /\ env.DB_PREFIX # <<>>
    /\ Count(wpConfig, "db.internal") = 1

\* C12: the text written to web/wp/wp-config.php holds no secret placeholder,
\* however many the sample file holds, and the loop that replaces them ends:
\* populateWpConfig returns and the file is written
C12_NoSecretPlaceholderWritten ==
    /\ [](Rendered => Count(wpConfig, SecretPlaceholder) = 0)
    /\ <>Rendered

\* a sample file with several secret keys is rendered, one generation for each
C12_Witness ==
    /\ Rendered
    /\ Count(sample, SecretPlaceholder) > 1
    /\ Len(generated) >= Count(sample, SecretPlaceholder)
    /\ wpConfigPath \in fs

\* C13: a template with N secret placeholders is rendered with exactly N
\* generations, and the strings generated stand in the output in the order
\* of their generation, one for each occurrence
C13_OneGenerationPerOccurrence ==
    Rendered =>
        /\ Len(generated) = Count(sample, SecretPlaceholder)
        /\ SelectSeq(wpConfig, LAMBDA t : t \in RandomStrings) = generated

\* the template with every token that is searched for replaced where it
\* stands: the text a substitution by position gives
RECURSIVE insertAtPlaceholders(_, _, _)
insertAtPlaceholders(t, e, gen) ==
    IF t = <<>> THEN <<>>
    ELSE LET h == Head(t)
             secret == h = SecretPlaceholder /\ gen # <<>>
             here == CASE h = "database_name_here" -> e.DB_NAME
                       [] h = "username_here" -> e.DB_USER
                       [] h = "password_here" -> e.DB_PASSWORD
                       [] h = "localhost" -> e.DB_HOST
                       [] h = DebugFalse /\ e.WP_ENV = "development" -> <<DebugTrue>>
                       [] h = TablePrefixWp /\ e.DB_PREFIX # <<>> ->
                            <<"$table_prefix = '">> \o e.DB_PREFIX \o <<"'">>
                       [] secret -> <<Head(gen)>>
                       [] OTHER -> <<h>>
         IN here \o insertAtPlaceholders(Tail(t), e, IF secret THEN Tail(gen) ELSE gen)

\* C19: whatever the env values hold, each of DB_NAME, DB_USER, DB_PASSWORD
\* and DB_HOST stands in the output where its own placeholder stood in the
\* template, unaltered by the other substitutions, and nowhere else
C19_ValuesInsertedAtOwnPlaceholder ==
    (Rendered /\ \A ph \in LegacyPlaceholders : Count(sample, ph) = 1)
        => wpConfig = insertAtPlaceholders(sample, env, generated)

\* C20: of a template that holds define('WP_DEBUG', false), the output holds
\* define('WP_DEBUG', true) exactly when WP_ENV is 'development'; for every
\* other WP_ENV, an absent one too, it still holds define('WP_DEBUG', false)
C20_DebugTrueIffDevelopment ==
    (Rendered /\ Occurs(sample, DebugFalse)) =>
        /\ Occurs(wpConfig, DebugTrue) <=> env.WP_ENV = "development"
        /\ env.WP_ENV # "development" =>
             Count(wpConfig, DebugFalse) >= Count(sample, DebugFalse)

\* a sample with the debug flag is rendered for an .env without WP_ENV and
\* keeps the flag off
C20_Witness ==
    /\ Rendered
    /\ Occurs(sample, DebugFalse)
    /\ env.WP_ENV = Undefined
    /\ Occurs(wpConfig, DebugFalse)
    /\ ~Occurs(wpConfig, DebugTrue)

---------------------------------------------------------------------------
(* Properties of a second run, under SpecRerun. *)

\* C14: a run on a workspace in which an earlier run wrote
\* web/wp/wp-config.php, whether that run finished or failed in the database
\* phase, changes neither the filesystem nor the database, and ends with exit
\* code 1 by the Interruption of the presence check
C14_SecondRunAbortsUnchanged ==
    run > 1 =>
        /\ ops = <<>>
        /\ fs = fs0
        /\ options = options0
        /\ pc \in {"checkPresence", "catch", "exited"}
        /\ pc = "catch" => err = PresenceInterruption("present", expectedAbsent)
        /\ pc = "exited" => exitCode = 1

\* the first run failed in the database phase after the first INSERT; the
\* second run has exited
C14_Witness ==
    /\ run > 1
    /\ pc = "exited"
    /\ exitCode = 1
    /\ exists(wpConfigPath)
    /\ countNamed(options, "siteurl") = 1
    /\ countNamed(options, "home") = 0

---------------------------------------------------------------------------
(* Properties of archive and moveWpContents, under SpecOps. *)

childrenIn(tree, dir) == {n \in Names : Append(dir, n) \in tree}

\* the last call has returned or thrown
CallEnded == call.op # "none" /\ pc = "idle"

\* C15: archive of a path that does not exist returns false and leaves the
\* filesystem as it was, at every call of it
C15_ArchiveOfAbsentPathIsNoOp ==
    (call.op = "archive" /\ call.path \notin fs0) => (ret = "false" /\ fs = fs0)

\* MaxCalls calls were made and none changed anything; the last is an archive
\* of an absent path written with a leading separator
C15_Witness ==
    /\ calls = MaxCalls
    /\ call.op = "archive"
    /\ call.lead
    /\ call.path \notin fs0
    /\ ret = "false"
    /\ ops = <<>>
    /\ <<"web">> \in fs

\* C17: moveWpContents of a folder whose directory under web/app exists, and
\* shares no name with the one under web/wp/wp-content, leaves the first
\* without children and the second with its own and the moved ones; of a
\* folder whose directory under web/app does not exist it changes nothing
C17_MoveWpContentsMovesEveryChild ==
    LET src == call.path
        dest == contentDir(call.path[Len(call.path)])
    IN (/\ CallEnded
        /\ call.op = "moveWpContents"
        /\ childrenIn(fs0, src) \cap childrenIn(fs0, dest) = {})
         => IF src \in fs0
            THEN /\ childrenIn(fs, src) = {}
                 /\ childrenIn(fs, dest) = childrenIn(fs0, dest) \cup childrenIn(fs0, src)
            ELSE fs = fs0 /\ ret = "false"

\* C18: archive of a path that exists leaves the path absent and what it
\* held, unchanged, under .debedrockify/old/<path>
C18_ArchiveMovesToQuarantine ==
    (CallEnded /\ call.op = "archive" /\ call.path \in fs0)
        => /\ ret # "throws"
           /\ call.path \notin fs
           /\ Subtree(fs, quarantine \o call.path)
                = Relocated(fs0, call.path, quarantine \o call.path)

---------------------------------------------------------------------------
(* The order of the phases of Engine.run, under Spec. *)

\* the operations of run in the order of the phases: the quarantine
\* directory, the content moves, the archival, the configuration, the
\* database backup and rewrite
PhaseOrder ==
    <<"makeDir", "mv", "archive", "writeFile", "mysqldump", "DELETE", "INSERT siteurl",
      "INSERT home">>

Rank(op) == CHOOSE k \in 1..Len(PhaseOrder) : PhaseOrder[k] = op

\* C16: the operations of a run are performed in the order of the phases; a
\* run that completes has performed the content moves and the archival of
\* web/app between the checks and the configuration; and once the backup has
\* failed, no statement of the rewrite that follows it is performed
C16_PhasesInOrderHaltAtFailure ==
    /\ \A j, k \in 1..Len(ops) : j < k => Rank(ops[j]) <= Rank(ops[k])
    /\ exitCode = 0 =>
         /\ (\E c \in Folders : children0(appDir(c)) \ DotNames # {}) => "mv" \in Range(ops)
         /\ <<"web", "app">> \in fs0 => "archive" \in Range(ops)
    /\ failure = "dump" => Range(ops) \cap RewriteStatements = {}

---------------------------------------------------------------------------
(* The table prefix, under SpecRender. *)

\* the table-prefix assignment the output is to hold for an .env: the one
\* with DB_PREFIX when it is set and not empty, the template's otherwise
PrefixLineOf(e) ==
    IF e.DB_PREFIX # <<>> THEN <<"$table_prefix = '">> \o e.DB_PREFIX \o <<"'">>
    ELSE <<TablePrefixWp>>

\* C21: the table-prefix assignment of the template, which stands just before
\* the debug flag at its end, is in the output the assignment of DB_PREFIX
\* exactly when DB_PREFIX is set and not empty, and is the template's line
\* otherwise
C21_PrefixLineRewrittenIffPrefixSet ==
    (/\ Rendered
     /\ Count(sample, TablePrefixWp) = 1
     /\ sample[Len(sample) - 1] = TablePrefixWp)
        => /\ Len(wpConfig) > Len(PrefixLineOf(env))
           /\ SubSeq(wpConfig, Len(wpConfig) - Len(PrefixLineOf(env)), Len(wpConfig) - 1)
                = PrefixLineOf(env)

---------------------------------------------------------------------------
(* The table and the database of the rewrite, under SpecDb. *)

\* the prefix of the table that the statements of updateDbSiteUrl name
StatementPrefix == <<"wp_">>

PrefixOpen == "$table_prefix = '"

\* the table prefix a configuration text assigns
configPrefix(t) ==
    IF Occurs(t, TablePrefixWp) THEN <<"wp_">>
    ELSE LET rest == SubSeq(t, indexOf(t, PrefixOpen) + 1, Len(t))
         IN SubSeq(rest, 1, indexOf(rest, "'") - 1)

\* C22: the table whose siteurl and home rows are deleted and inserted has
\* the table prefix that web/wp/wp-config.php was written with
C22_RewrittenTableHasConfigPrefix ==
    (Range(ops) \cap RewriteStatements # {}) => configPrefix(wpConfig) = StatementPrefix

\* C23: the server, account and database a completed mysqldump has read are
\* the ones the connection of the rewrite is opened on
C23_DumpedDatabaseIsConnectedDatabase ==
    (dump = "complete" /\ connected # NoTarget) => dumped = connected

============================================================================
